---- MODULE Spec2Model ----
(***************************************************************************)
(* Model of ctc_tool_api.py: the POST /check-ctc operation of the CTC      *)
(* budget checker.  Strings are sequences of one-character strings, so     *)
(* that str.strip(), float() and the f-string formatting of a float are    *)
(* computed character by character and not assumed.                        *)
(*                                                                         *)
(* A float is a record.  kind = "nan", "inf" (with neg) or "fin"; a finite *)
(* value is (-1)^neg * num / 10^scale with num not divisible by 10 unless  *)
(* scale = 0.  Zero keeps its sign, as an IEEE-754 double does.  Within    *)
(* the bounds every decimal has fewer than 15 significant digits, where    *)
(* decimal -> double is injective and order preserving and repr() prints   *)
(* the shortest decimal back, so the decimal record stands for the double. *)
(* Inputs hold no exponent marker and no underscore.                       *)
(***************************************************************************)
EXTENDS Integers, Sequences, FiniteSets, TLC

VARIABLES body, pc, status, response, raised, calls

vars == <<body, pc, status, response, raised, calls>>

(***************************************************************************)
(* Bounds.                                                                 *)
(***************************************************************************)
MaxLen == 3
MaxFaultLen == 2
NumClients == 3

(***************************************************************************)
(* Characters.                                                             *)
(***************************************************************************)
Whitespace == {" ", "\t", "\n", "\r"}

Digits == {"0", "1", "2", "3", "4", "5", "6", "7", "8", "9"}

DigitVal(c) ==
    CASE c = "0" -> 0 [] c = "1" -> 1 [] c = "2" -> 2 [] c = "3" -> 3
      [] c = "4" -> 4 [] c = "5" -> 5 [] c = "6" -> 6 [] c = "7" -> 7
      [] c = "8" -> 8 [] c = "9" -> 9

DigitChar(d) == <<"0", "1", "2", "3", "4", "5", "6", "7", "8", "9">>[d + 1]

Lower(c) ==
    CASE c = "I" -> "i" [] c = "N" -> "n" [] c = "F" -> "f" [] c = "A" -> "a"
      [] c = "T" -> "t" [] c = "Y" -> "y" [] OTHER -> c

LowerStr(s) == [i \in 1..Len(s) |-> Lower(s[i])]

(***************************************************************************)
(* str.strip(): drop leading and trailing whitespace.                      *)
(***************************************************************************)
RECURSIVE LStrip(_)
LStrip(s) ==
    IF s # <<>> /\ Head(s) \in Whitespace THEN LStrip(Tail(s)) ELSE s

RECURSIVE RStrip(_)
RStrip(s) ==
    IF s # <<>> /\ s[Len(s)] \in Whitespace
    THEN RStrip(SubSeq(s, 1, Len(s) - 1))
    ELSE s

Strip_None(s) == s

Strip(s) == RStrip(LStrip(s))

(***************************************************************************)
(* float(str).                                                             *)
(***************************************************************************)
ValueError == [kind |-> "ValueError", neg |-> FALSE, num |-> 0, scale |-> 0]
NaN == [kind |-> "nan", neg |-> FALSE, num |-> 0, scale |-> 0]
Inf(neg) == [kind |-> "inf", neg |-> neg, num |-> 0, scale |-> 0]

RECURSIVE Pow10(_)
Pow10(k) == IF k = 0 THEN 1 ELSE 10 * Pow10(k - 1)

RECURSIVE DigitsToNat(_)
DigitsToNat(d) ==
    IF d = <<>> THEN 0
    ELSE 10 * DigitsToNat(SubSeq(d, 1, Len(d) - 1)) + DigitVal(d[Len(d)])

RECURSIVE Normal(_, _, _)
Normal(neg, num, scale) ==
    IF scale > 0 /\ num % 10 = 0
    THEN Normal(neg, num \div 10, scale - 1)
    ELSE [kind |-> "fin", neg |-> neg, num |-> num, scale |-> scale]

AllDigits(d) == \A i \in 1..Len(d) : d[i] \in Digits

DotAt(s) ==
    IF \E i \in 1..Len(s) : s[i] = "."
    THEN CHOOSE i \in 1..Len(s) : s[i] = "." /\ \A j \in 1..(i - 1) : s[j] # "."
    ELSE 0

ParseDecimal(neg, s) ==
    LET dot == DotAt(s)
        intd == IF dot = 0 THEN s ELSE SubSeq(s, 1, dot - 1)
        fracd == IF dot = 0 THEN <<>> ELSE SubSeq(s, dot + 1, Len(s))
    IN  IF AllDigits(intd) /\ AllDigits(fracd) /\ Len(intd) + Len(fracd) >= 1
        THEN Normal(neg, DigitsToNat(intd \o fracd), Len(fracd))
        ELSE ValueError

ParseFloat(str) ==
    LET s == Strip(str)
        signed == s # <<>> /\ s[1] \in {"+", "-"}
        neg == signed /\ s[1] = "-"
        rest == IF signed THEN Tail(s) ELSE s
        low == LowerStr(rest)
    IN  IF low = <<"n", "a", "n">> THEN NaN
        ELSE IF low = <<"i", "n", "f">>
                \/ low = <<"i", "n", "f", "i", "n", "i", "t", "y">> THEN Inf(neg)
        ELSE ParseDecimal(neg, rest)

(***************************************************************************)
(* Comparison of floats (IEEE-754: every comparison with nan is false,     *)
(* -0.0 equals 0.0).                                                       *)
(***************************************************************************)
Signed(v, scale) ==
    (IF v.neg THEN -1 ELSE 1) * v.num * Pow10(scale - v.scale)

FloatLt(a, b) ==
    CASE a.kind = "nan" \/ b.kind = "nan" -> FALSE
      [] a.kind = "inf" -> a.neg /\ ~(b.kind = "inf" /\ b.neg)
      [] b.kind = "inf" -> ~b.neg
      [] OTHER ->
            LET sc == IF a.scale > b.scale THEN a.scale ELSE b.scale
            IN  Signed(a, sc) < Signed(b, sc)

FloatEq(a, b) ==
    CASE a.kind = "nan" \/ b.kind = "nan" -> FALSE
      [] a.kind = "inf" \/ b.kind = "inf" -> a.kind = b.kind /\ a.neg = b.neg
      [] OTHER ->
            LET sc == IF a.scale > b.scale THEN a.scale ELSE b.scale
            IN  Signed(a, sc) = Signed(b, sc)

FloatGt(a, b) == FloatLt(b, a)

FloatLe(a, b) == FloatLt(a, b) \/ FloatEq(a, b)

FloatOfInt(n) == [kind |-> "fin", neg |-> n < 0, num |-> IF n < 0 THEN -n ELSE n, scale |-> 0]

(***************************************************************************)
(* str(float), as an f-string interpolates it.                             *)
(***************************************************************************)
RECURSIVE NatToDigits(_)
NatToDigits(n) ==
    IF n < 10 THEN <<DigitChar(n)>>
    ELSE NatToDigits(n \div 10) \o <<DigitChar(n % 10)>>

RECURSIVE ZeroPad(_, _)
ZeroPad(d, width) == IF Len(d) >= width THEN d ELSE ZeroPad(<<"0">> \o d, width)

Repr(v) ==
    CASE v.kind = "nan" -> <<"n", "a", "n">>
      [] v.kind = "inf" -> (IF v.neg THEN <<"-">> ELSE <<>>) \o <<"i", "n", "f">>
      [] OTHER ->
            (IF v.neg THEN <<"-">> ELSE <<>>)
            \o NatToDigits(v.num \div Pow10(v.scale))
            \o <<".">>
            \o (IF v.scale = 0 THEN <<"0">>
                ELSE ZeroPad(NatToDigits(v.num % Pow10(v.scale)), v.scale))

(***************************************************************************)
(* Request and response models.                                            *)
(***************************************************************************)
None == "None"

Str(s) == [kind |-> "str", val |-> s]
Absent == [kind |-> "absent", val |-> <<>>]
JsonNull == [kind |-> "null", val |-> <<>>]

CTCRequest(b) == [expected_ctc |-> b.expected_ctc.val, max_budget |-> b.max_budget.val]

CTCRequestValid(b) == b.expected_ctc.kind = "str" /\ b.max_budget.kind = "str"

CTCResponse(result, error, message) ==
    [result |-> result, error |-> error, message |-> message]

MinCTC == 0
MaxCTC == 200

(***************************************************************************)
(* An unexpected failure: an exception, other than the ValueError float()  *)
(* raises for a malformed number, raised at one point of the handler.      *)
(***************************************************************************)
FaultPoints == {"strip", "parse", "range", "compare", "respond"}
FaultDescs == {"out of memory"}
NoFault == [at |-> "never", desc |-> ""]
Faults == [at : FaultPoints, desc : FaultDescs]

Return(r) == [kind |-> "return", response |-> r, exc |-> ""]
Raise(desc) == [kind |-> "raise", response |-> CTCResponse("", None, <<>>), exc |-> desc]

MissingParameters_NoCode ==
    CTCResponse("Error", None,
        <<"Both expected_ctc and max_budget are required. Proceeding without budget check.">>)

MissingParameters ==
    CTCResponse("Error", "Missing parameters",
        <<"Both expected_ctc and max_budget are required. Proceeding without budget check.">>)

InvalidNumberFormat ==
    CTCResponse("Error", "Invalid number format",
        <<"expected_ctc and max_budget must be valid numbers. Proceeding without budget check.">>)

InvalidRange ==
    CTCResponse("Error", "Invalid range",
        <<"CTC values must be between 0 and 200 LPA. Proceeding without budget check.">>)

ServerError(desc) ==
    CTCResponse("Error", "Server error",
        <<"An unexpected error occurred: ", desc, ". Proceeding without budget check.">>)

(***************************************************************************)
(* The handler's local variables once both inputs are parsed.              *)
(***************************************************************************)
Locals(expected_ctc_str, max_budget_str, expected_ctc, max_budget) ==
    [expected_ctc_str |-> expected_ctc_str, max_budget_str |-> max_budget_str,
     expected_ctc |-> expected_ctc, max_budget |-> max_budget]

WithinBudget_Raw(l) ==
    CTCResponse("Within budget", None,
        <<"Expected CTC of ">> \o l.expected_ctc_str
        \o <<" LPA is within the maximum budget of ">> \o l.max_budget_str \o <<" LPA">>)

WithinBudget(l) ==
    CTCResponse("Within budget", None,
        <<"Expected CTC of ">> \o Repr(l.expected_ctc)
        \o <<" LPA is within the maximum budget of ">> \o Repr(l.max_budget) \o <<" LPA">>)

AboveBudget(l) ==
    CTCResponse("Above budget", None,
        <<"Expected CTC of ">> \o Repr(l.expected_ctc)
        \o <<" LPA is above the maximum budget of ">> \o Repr(l.max_budget) \o <<" LPA">>)

(***************************************************************************)
(* check_ctc: the body of the try block, then the handler with its         *)
(* catch-all.                                                              *)
(***************************************************************************)
Respond(r, fault) == IF fault.at = "respond" THEN Raise(fault.desc) ELSE Return(r)

IsEmpty(expected_ctc_str, max_budget_str) ==
    expected_ctc_str = <<>> \/ max_budget_str = <<>>

ParseFailed_FirstOnly(expected_ctc, max_budget) == expected_ctc.kind = "ValueError"

ParseFailed(expected_ctc, max_budget) ==
    expected_ctc.kind = "ValueError" \/ max_budget.kind = "ValueError"

OutOfRange_Exclusive(expected_ctc, max_budget) ==
    \/ FloatLe(expected_ctc, FloatOfInt(MinCTC))
    \/ FloatLe(FloatOfInt(MaxCTC), expected_ctc)
    \/ FloatLe(max_budget, FloatOfInt(MinCTC))
    \/ FloatLe(FloatOfInt(MaxCTC), max_budget)

OutOfRange(expected_ctc, max_budget) ==
    \/ FloatLt(expected_ctc, FloatOfInt(MinCTC))
    \/ FloatGt(expected_ctc, FloatOfInt(MaxCTC))
    \/ FloatLt(max_budget, FloatOfInt(MinCTC))
    \/ FloatGt(max_budget, FloatOfInt(MaxCTC))

CheckBudget_Strict(l) ==
    IF FloatLt(l.expected_ctc, l.max_budget) THEN WithinBudget(l) ELSE AboveBudget(l)

CheckBudget(l) ==
    IF FloatLe(l.expected_ctc, l.max_budget) THEN WithinBudget(l) ELSE AboveBudget(l)

TryBody(request, fault) ==
    IF fault.at = "strip" THEN Raise(fault.desc) ELSE
    LET expected_ctc_str == Strip(request.expected_ctc)
        max_budget_str == Strip(request.max_budget)
    IN  IF IsEmpty(expected_ctc_str, max_budget_str) THEN Respond(MissingParameters, fault)
        ELSE IF fault.at = "parse" THEN Raise(fault.desc) ELSE
        LET expected_ctc == ParseFloat(expected_ctc_str)
            max_budget == ParseFloat(max_budget_str)
        IN  IF ParseFailed(expected_ctc, max_budget)
            THEN Respond(InvalidNumberFormat, fault)
            ELSE IF fault.at = "range" THEN Raise(fault.desc)
            ELSE IF OutOfRange(expected_ctc, max_budget) THEN Respond(InvalidRange, fault)
            ELSE IF fault.at = "compare" THEN Raise(fault.desc)
            ELSE Respond(CheckBudget(Locals(expected_ctc_str, max_budget_str,
                                            expected_ctc, max_budget)), fault)

Except_Reraise(out) == out

Except(out) == IF out.kind = "raise" THEN Return(ServerError(out.exc)) ELSE out

check_ctc_Retained(request, fault) ==
    LET answered == {i \in DOMAIN calls : calls[i].pc = "responded" /\ calls[i].status = 200}
        first == CHOOSE i \in answered : \A j \in answered : i <= j
    IN  IF answered = {} THEN Except(TryBody(request, fault))
        ELSE Except(TryBody([expected_ctc |-> request.expected_ctc,
                             max_budget |-> calls[first].body.max_budget.val], fault))

check_ctc(request, fault) == Except(TryBody(request, fault))

(***************************************************************************)
(* The request bodies of the model.                                        *)
(***************************************************************************)
Alphabet == {" ", "-", ".", "0", "2"}

RECURSIVE StringsUpTo(_)
StringsUpTo(n) ==
    IF n = 0 THEN {<<>>}
    ELSE LET shorter == StringsUpTo(n - 1)
         IN  shorter \cup {Append(s, c) : s \in shorter, c \in Alphabet}

Samples ==
    { <<"8", "5">>, <<"9", "0">>, <<"4", "5">>, <<"4", "0">>,
      <<"a", "b", "c">>, <<"2", "5", "0">>, <<"2", "0", "1">>, <<"-", "1">>,
      <<" ", "8", "5", ".", "0", " ">>, <<"\t", "9", "0", "\n">>,
      <<"2", "0", "0", ".", "0">>, <<"+", "2">>,
      <<"n", "a", "n">>, <<"N", "a", "N">>, <<"-", "n", "a", "n">>,
      <<"i", "n", "f">>, <<"-", "i", "n", "f">>,
      <<"I", "n", "f", "i", "n", "i", "t", "y">> }

Strings == StringsUpTo(MaxLen) \cup Samples

Fields == {Str(s) : s \in Strings} \cup {Absent, JsonNull}

Bodies == [expected_ctc : Fields, max_budget : Fields]

FaultFields == {Str(s) : s \in StringsUpTo(MaxFaultLen) \cup Samples} \cup {Absent, JsonNull}

FaultBodies == [expected_ctc : FaultFields, max_budget : FaultFields]

(***************************************************************************)
(* One request: the framework validates the body against CTCRequest and    *)
(* either rejects it or calls the handler, which runs to its return        *)
(* without suspending.                                                     *)
(***************************************************************************)
NoResponse == [none |-> TRUE]
NoCalls == [i \in 1..NumClients |-> [pc |-> "idle"]]

Receive(bodies) ==
    /\ body \in bodies
    /\ pc = "received"
    /\ status = 0
    /\ response = NoResponse
    /\ raised = None
    /\ calls = NoCalls

Init == Receive(Bodies)

InitFault == Receive(FaultBodies)

Validate ==
    /\ pc = "received"
    /\ IF CTCRequestValid(body)
       THEN /\ pc' = "handling"
            /\ UNCHANGED <<status, response>>
       ELSE /\ pc' = "responded"
            /\ status' = 422
            /\ response' = [detail |-> "validation error"]
    /\ UNCHANGED <<body, raised, calls>>

Deliver(out) ==
    IF out.kind = "return"
    THEN [status |-> 200, response |-> out.response]
    ELSE [status |-> 500, response |-> [detail |-> "Internal Server Error"]]

Handle(fault) ==
    /\ pc = "handling"
    /\ LET request == CTCRequest(body)
           tried == TryBody(request, fault)
           sent == Deliver(Except(tried))
       IN  /\ status' = sent.status
           /\ response' = sent.response
           /\ raised' = IF tried.kind = "raise" THEN tried.exc ELSE None
    /\ pc' = "responded"
    /\ UNCHANGED <<body, calls>>

(***************************************************************************)
(* Spec: requests whose handling raises nothing unexpected.  SpecFault:    *)
(* an unexpected exception may also be raised at any step of the handler.  *)
(***************************************************************************)
HandleNormally == Handle(NoFault)

HandleFailing == \E fault \in Faults : Handle(fault)

Next == Validate \/ HandleNormally

Spec == Init /\ [][Next]_vars

NextFault == Validate \/ HandleNormally \/ HandleFailing

SpecFault == InitFault /\ [][NextFault]_vars

(***************************************************************************)
(* Several clients.  A handler has no suspension point, so the handlers of *)
(* concurrent requests run one after the other in some order; the order   *)
(* of sending, validating and handling is free.                            *)
(***************************************************************************)
Clients == 1..NumClients

SampleBodies ==
    { [expected_ctc |-> Str(<<"8", "5">>), max_budget |-> Str(<<"9", "0">>)],
      [expected_ctc |-> Str(<<"4", "5">>), max_budget |-> Str(<<"4", "0">>)],
      [expected_ctc |-> Str(<<>>), max_budget |-> Str(<<"4", "0">>)],
      [expected_ctc |-> Str(<<"a", "b", "c">>), max_budget |-> Str(<<"4", "0">>)],
      [expected_ctc |-> Str(<<"2", "5", "0">>), max_budget |-> Str(<<"4", "0">>)],
      [expected_ctc |-> Absent, max_budget |-> Str(<<"4", "0">>)] }

InitConc ==
    /\ body = [expected_ctc |-> Absent, max_budget |-> Absent]
    /\ pc = "off"
    /\ status = 0
    /\ response = NoResponse
    /\ raised = None
    /\ calls = NoCalls

Send(i, b) ==
    /\ calls[i].pc = "idle"
    /\ calls' = [calls EXCEPT ![i] = [pc |-> "received", body |-> b]]
    /\ UNCHANGED <<body, pc, status, response, raised>>

ValidateCall(i) ==
    /\ calls[i].pc = "received"
    /\ calls' = [calls EXCEPT ![i] =
            IF CTCRequestValid(calls[i].body)
            THEN [pc |-> "handling", body |-> calls[i].body]
            ELSE [pc |-> "responded", body |-> calls[i].body, status |-> 422,
                  response |-> [detail |-> "validation error"]]]
    /\ UNCHANGED <<body, pc, status, response, raised>>

HandleCall(i) ==
    /\ calls[i].pc = "handling"
    /\ LET sent == Deliver(check_ctc(CTCRequest(calls[i].body), NoFault))
       IN  calls' = [calls EXCEPT ![i] =
                [pc |-> "responded", body |-> calls[i].body,
                 status |-> sent.status, response |-> sent.response]]
    /\ UNCHANGED <<body, pc, status, response, raised>>

NextConc ==
    \/ \E i \in Clients, b \in SampleBodies : Send(i, b)
    \/ \E i \in Clients : ValidateCall(i)
    \/ \E i \in Clients : HandleCall(i)

SpecConc == InitConc /\ [][NextConc]_vars

(***************************************************************************)
(* Vocabulary of the properties.  The numeric order is stated here on the  *)
(* decimal value by cross-multiplication, apart from the comparison the    *)
(* handler uses.                                                           *)
(***************************************************************************)
Handled == pc = "responded" /\ status = 200

Received(field) == body[field].val

NonSpace(s) == {i \in 1..Len(s) : s[i] \notin Whitespace}

Trim(s) ==
    IF NonSpace(s) = {} THEN <<>>
    ELSE SubSeq(s, CHOOSE i \in NonSpace(s) : \A j \in NonSpace(s) : i <= j,
                   CHOOSE i \in NonSpace(s) : \A j \in NonSpace(s) : j <= i)

Trimmed(field) == Trim(Received(field))

Parsed(field) == ParseFloat(Trimmed(field))

AllWhitespace(s) == \A i \in 1..Len(s) : s[i] \in Whitespace

Parses(field) == Parsed(field).kind # "ValueError"

IsNumber(v) == v.kind = "fin"

Numerator(v) == IF v.neg THEN 0 - v.num ELSE v.num

NumLe(a, b) == Numerator(a) * Pow10(b.scale) <= Numerator(b) * Pow10(a.scale)

LessThanMin(v) ==
    \/ v.kind = "inf" /\ v.neg
    \/ v.kind = "fin" /\ Numerator(v) < MinCTC * Pow10(v.scale)

GreaterThanMax(v) ==
    \/ v.kind = "inf" /\ ~v.neg
    \/ v.kind = "fin" /\ Numerator(v) > MaxCTC * Pow10(v.scale)

InClosedRange(v) ==
    /\ IsNumber(v)
    /\ MinCTC * Pow10(v.scale) <= Numerator(v)
    /\ Numerator(v) <= MaxCTC * Pow10(v.scale)

Classified == response.result \in {"Within budget", "Above budget"}

ErrorCodes == {"Missing parameters", "Invalid number format", "Invalid range", "Server error"}

Answer(expected_ctc, max_budget) ==
    check_ctc([expected_ctc |-> expected_ctc, max_budget |-> max_budget], NoFault).response

PlusZero(v) == IF v.kind = "fin" /\ v.num = 0 THEN FloatOfInt(0) ELSE v

(***************************************************************************)
(* C1: when both trimmed inputs parse to numbers e and m in [0, 200], the  *)
(* result is "Within budget" exactly when e <= m and "Above budget"        *)
(* exactly when e > m, and the error field is absent.                      *)
(***************************************************************************)
C1_Classification ==
    (Handled /\ InClosedRange(Parsed("expected_ctc")) /\ InClosedRange(Parsed("max_budget")))
    => LET e == Parsed("expected_ctc")
           m == Parsed("max_budget")
       IN  /\ (response.result = "Within budget") <=> NumLe(e, m)
           /\ (response.result = "Above budget") <=> ~NumLe(e, m)
           /\ response.error = None

C1_Witness ==
    /\ Handled
    /\ InClosedRange(Parsed("expected_ctc"))
    /\ Parsed("expected_ctc") = Parsed("max_budget")
    /\ Received("expected_ctc") # Received("max_budget")
    /\ response.result = "Within budget"

(***************************************************************************)
(* C2: every request is answered with status 200 and a CheckResponse body, *)
(* whatever its body.                                                      *)
(***************************************************************************)
C2_AlwaysStatus200 ==
    pc = "responded"
    => status = 200 /\ DOMAIN response = {"result", "message", "error"}

(***************************************************************************)
(* C3: in every response of check_ctc, result = "Error" iff the error      *)
(* field is present; a classification carries no error and an error        *)
(* response carries one of the four codes.                                 *)
(***************************************************************************)
C3_ErrorIffCode ==
    Handled
    => /\ response.result \in {"Within budget", "Above budget", "Error"}
       /\ (response.result = "Error") <=> (response.error # None)
       /\ Classified => response.error = None
       /\ response.result = "Error" => response.error \in ErrorCodes

C3_Witness ==
    Handled /\ response.result = "Error" /\ response.error = "Server error"

(***************************************************************************)
(* C4: if either input is empty after trimming, whitespace-only included,  *)
(* the response is Error / "Missing parameters", whatever the other field  *)
(* holds.                                                                  *)
(***************************************************************************)
C4_MissingParameters ==
    (Handled
        /\ (AllWhitespace(Received("expected_ctc")) \/ AllWhitespace(Received("max_budget"))))
    => response.result = "Error" /\ response.error = "Missing parameters"

C4_Witness ==
    /\ Handled
    /\ Received("max_budget") # <<>>
    /\ AllWhitespace(Received("max_budget"))
    /\ GreaterThanMax(Parsed("expected_ctc"))
    /\ response.error = "Missing parameters"

(***************************************************************************)
(* C5: if both trimmed inputs are non-empty and at least one does not      *)
(* parse, the response is Error / "Invalid number format", also when the   *)
(* other field is a number outside [0, 200].                               *)
(***************************************************************************)
C5_InvalidNumberFormat ==
    (Handled
        /\ ~AllWhitespace(Received("expected_ctc")) /\ ~AllWhitespace(Received("max_budget"))
        /\ (~Parses("expected_ctc") \/ ~Parses("max_budget")))
    => response.result = "Error" /\ response.error = "Invalid number format"

C5_Witness ==
    /\ Handled
    /\ GreaterThanMax(Parsed("expected_ctc"))
    /\ ~AllWhitespace(Received("max_budget"))
    /\ ~Parses("max_budget")
    /\ response.error = "Invalid number format"

(***************************************************************************)
(* C6: if both trimmed inputs parse, the response is Error / "Invalid      *)
(* range" iff a parsed value is less than 0 or greater than 200; 0 and 200 *)
(* themselves are accepted and classified.                                 *)
(***************************************************************************)
C6_InvalidRange ==
    (Handled /\ Parses("expected_ctc") /\ Parses("max_budget"))
    => LET e == Parsed("expected_ctc")
           m == Parsed("max_budget")
           outside == LessThanMin(e) \/ GreaterThanMax(e) \/ LessThanMin(m) \/ GreaterThanMax(m)
       IN  /\ (response.error = "Invalid range") <=> outside
           /\ response.error = "Invalid range" => response.result = "Error"
           /\ ~outside => Classified

C6_Witness ==
    /\ Handled
    /\ Parsed("expected_ctc") = FloatOfInt(MaxCTC)
    /\ Parsed("max_budget") = FloatOfInt(MinCTC)
    /\ response.result = "Above budget"

(***************************************************************************)
(* C7: an unexpected failure raised at any step of check_ctc is caught and *)
(* answered normally with Error / "Server error" and a message that embeds *)
(* the failure's description; it never leaves the handler.                 *)
(***************************************************************************)
C7_ServerError ==
    (pc = "responded" /\ raised # None)
    => /\ status = 200
       /\ response = CTCResponse("Error", "Server error",
             <<"An unexpected error occurred: ", raised, ". Proceeding without budget check.">>)

C7_Witness ==
    /\ pc = "responded"
    /\ raised \in FaultDescs
    /\ InClosedRange(Parsed("expected_ctc"))
    /\ InClosedRange(Parsed("max_budget"))
    /\ response.error = "Server error"

(***************************************************************************)
(* C8: no state is kept between calls: in every interleaving, calls with   *)
(* the same inputs have the same response.                                 *)
(***************************************************************************)
C8_Stateless ==
    \A i \in Clients, j \in Clients :
        (calls[i].pc = "responded" /\ calls[j].pc = "responded"
            /\ calls[i].body = calls[j].body)
        => calls[i].status = calls[j].status /\ calls[i].response = calls[j].response

C8_Witness ==
    /\ \A i \in Clients : calls[i].pc = "responded"
    /\ \E i \in Clients, j \in Clients :
          i # j /\ calls[i].body = calls[j].body /\ calls[i].status = 200
    /\ \E i \in Clients, j \in Clients : calls[i].body # calls[j].body

(***************************************************************************)
(* C9 as stated: the response is the response to the trimmed inputs, and   *)
(* a request whose fields parse to the same pair of numbers as this one    *)
(* (numbers compared as numbers, one field varied at a time) gets the same *)
(* result and the same message.                                            *)
(***************************************************************************)
C9_SameNumbersSameResponse ==
    Handled
    => /\ response = Answer(Trimmed("expected_ctc"), Trimmed("max_budget"))
       /\ (Parses("expected_ctc") /\ Parses("max_budget"))
          => \A s \in {t \in Strings : ParseFloat(t).kind # "ValueError"} :
                /\ FloatEq(ParseFloat(s), Parsed("expected_ctc"))
                   => Answer(s, Received("max_budget")) = response
                /\ FloatEq(ParseFloat(s), Parsed("max_budget"))
                   => Answer(Received("expected_ctc"), s) = response

(***************************************************************************)
(* C9 as amended: the response depends on the inputs only through their    *)
(* trimmed, parsed floats, where -0.0 and 0.0 are different floats.  It is *)
(* the response to the trimmed inputs; when both parse it is the response  *)
(* to the printed forms of the parsed floats, so inputs parsing to the     *)
(* same pair of floats get the same result and message; and the result     *)
(* alone does not depend on the sign of zero.                              *)
(***************************************************************************)
C9_ParsedValuesOnly ==
    Handled
    => LET te == Trimmed("expected_ctc")
           tm == Trimmed("max_budget")
           e == ParseFloat(te)
           m == ParseFloat(tm)
       IN  /\ response = Answer(te, tm)
           /\ (e.kind # "ValueError" /\ m.kind # "ValueError")
              => /\ response = Answer(Repr(e), Repr(m))
                 /\ (e # PlusZero(e) \/ m # PlusZero(m))
                    => response.result = Answer(Repr(PlusZero(e)), Repr(PlusZero(m))).result

C9_Witness ==
    /\ Handled
    /\ Classified
    /\ Received("expected_ctc") # Trimmed("expected_ctc")
    /\ Trimmed("expected_ctc") # Repr(Parsed("expected_ctc"))
    /\ Parsed("max_budget") # PlusZero(Parsed("max_budget"))

(***************************************************************************)
(* C10: whenever the result is "Within budget" or "Above budget", both     *)
(* parsed values are numbers in the closed range [0, 200].                 *)
(***************************************************************************)
C10_ClassifiedInRange ==
    (Handled /\ Classified)
    => InClosedRange(Parsed("expected_ctc")) /\ InClosedRange(Parsed("max_budget"))

====
